---- MODULE Spec2Model ----
(***************************************************************************)
(* Model of the two sample-file generators of scripts/:                    *)
(*   create_sample_file.py  generate_kumi(mode, size_mb)                   *)
(*   cmake_sample_file.py   generate_cmake_script(size_mb)                 *)
(* Texts are TLA+ strings, built character for character as the f-strings  *)
(* of the source build them; len() is Len, "".join is Join.                *)
(***************************************************************************)
EXTENDS Integers, Sequences, FiniteSets, TLC

VARIABLES pc, fn, mode, target_bytes, output, current_bytes, i, result, prev

vars == <<pc, fn, mode, target_bytes, output, current_bytes, i, result, prev>>

(***************************************************************************)
(* Bounds of the model.                                                    *)
(***************************************************************************)
\* targets of the single-call specification are -MaxNegTarget..MaxTarget
MaxTarget == 2000
\* the negative targets go down to -MaxNegTarget
MaxNegTarget == 3
\* targets of the repeated-call specification: k * PairStep and the byte after it
PairStep == 193
PairMaxK == 9

Targets == (0 - MaxNegTarget)..MaxTarget

PairTargets == {k * PairStep + d : k \in (0 - 1)..PairMaxK, d \in 0..1}

\* "flat", "nested", "normal" are the modes the source names; "turbo" stands
\* for any other string (only ==-comparisons with the three names read it)
KumiModes == {"flat", "nested", "normal", "turbo"}

(***************************************************************************)
(* Text helpers: str(i) of an f-string field, len, "".join.                *)
(***************************************************************************)
Digit(d) == SubSeq("0123456789", d + 1, d + 1)

RECURSIVE Str(_)
Str(n) == IF n < 10 THEN Digit(n) ELSE Str(n \div 10) \o Digit(n % 10)

RECURSIVE Join(_)
Join(seq) == IF seq = <<>> THEN "" ELSE Head(seq) \o Join(Tail(seq))

RECURSIVE SumLen(_)
SumLen(seq) == IF seq = <<>> THEN 0 ELSE Len(Head(seq)) + SumLen(Tail(seq))

RECURSIVE Indent(_)
Indent(d) == IF d = 0 THEN "" ELSE "  " \o Indent(d - 1)

(***************************************************************************)
(* generate_kumi: header                                                   *)
(***************************************************************************)
NestedHeader == "project nested_stress { version: \"1.0.0\"; }\n"

FlatHeader == "project flat_stress { version: \"1.0.0\"; }\n"

NormalHeader ==
    << "project kumi_enterprise { version: \"2025.12.0\"; authors: \"Kumi Team\"; }\n\n",
       "mixin base_cfg {\n  cpp: 23;\n  warnings: strict;\n}\n\n",
       "dependencies {\n  fmt: \"10.2.1\";\n  spdlog: \"1.12.0\";\n}\n\n" >>

\* variant: the headers of the nested and the flat branch are exchanged
KumiHeaderSwapped(m) ==
    IF m = "nested" THEN <<FlatHeader>>
    ELSE IF m = "flat" THEN <<NestedHeader>>
    ELSE NormalHeader

KumiHeader(m) ==
    IF m = "nested" THEN <<NestedHeader>>
    ELSE IF m = "flat" THEN <<FlatHeader>>
    ELSE NormalHeader

(***************************************************************************)
(* generate_kumi: one block of the body                                    *)
(***************************************************************************)
depth == 12

\* for d in range(n): indent = "  " * d; block += indent + "@if platform(linux) {\n"
RECURSIVE NestedOpeners(_)
NestedOpeners(n) ==
    IF n = 0 THEN ""
    ELSE NestedOpeners(n - 1) \o Indent(n - 1) \o "@if platform(linux) {\n"

\* the value of indent when the opener loop is over
IndentAfterOpeners(n) == IF n = 0 THEN "" ELSE Indent(n - 1)

NestedLeaf(n, k) ==
    IndentAfterOpeners(n) \o "  target leaf_" \o Str(k)
        \o " { type: executable; sources: \"main.cpp\"; }\n"

\* variant: the closer loop stops one level early, range(n - 1, 0, -1)
RECURSIVE NestedClosersShort(_)
NestedClosersShort(n) ==
    IF n <= 1 THEN ""
    ELSE Indent(n - 1) \o "}\n" \o NestedClosersShort(n - 1)

\* for d in range(n - 1, -1, -1): indent = "  " * d; block += indent + "}\n"
RECURSIVE NestedClosers(_)
NestedClosers(n) ==
    IF n = 0 THEN ""
    ELSE Indent(n - 1) \o "}\n" \o NestedClosers(n - 1)

NestedBlock(k) == NestedOpeners(depth) \o NestedLeaf(depth, k) \o NestedClosers(depth)

FlatBlock(k) ==
    "target lib_" \o Str(k) \o " {\n"
    \o "  type: static-lib;\n"
    \o "  sources: \"src/file_" \o Str(k) \o ".cpp\";\n"
    \o "  optimize: speed;\n"
    \o "}\n"

ServiceBlock(k) ==
    "target service_" \o Str(k) \o " with base_cfg {\n"
    \o "  type: executable;\n"
    \o "  sources: \"services/" \o Str(k) \o "/*.cpp\";\n"
    \o "  @if arch(x86_64) {\n"
    \o "    compile-options: \"-march=native\";\n"
    \o "  }\n"
    \o "  @for lang in [en, de, fr] {\n"
    \o "    resources: \"locales/${lang}/*\";\n"
    \o "  }\n"
    \o "}\n\n"

ProfileBlock(k) ==
    "profile release_" \o Str(k) \o " with base_cfg {\n"
    \o "  optimize: aggressive;\n"
    \o "  lto: true;\n"
    \o "  strip: true;\n"
    \o "}\n\n"

MixinBlock(k) ==
    "mixin plugin_" \o Str(k) \o " {\n"
    \o "  public {\n"
    \o "    defines: \"PLUGIN_ID=" \o Str(k) \o "\";\n"
    \o "    include-dirs: \"plugins/" \o Str(k) \o "/include\";\n"
    \o "  }\n"
    \o "}\n\n"

NormalBlock(k) ==
    LET choice == k % 3
    IN  IF choice = 0 THEN ServiceBlock(k)
        ELSE IF choice = 1 THEN ProfileBlock(k)
        ELSE MixinBlock(k)

\* variant: the default branch of the body is the flat one
KumiBlockDefaultFlat(m, k) ==
    IF m = "nested" THEN NestedBlock(k)
    ELSE IF m = "normal" THEN NormalBlock(k)
    ELSE FlatBlock(k)

\* variant: no default branch, block stays "" for a mode the body does not name
KumiBlockNoDefault(m, k) ==
    IF m = "nested" THEN NestedBlock(k)
    ELSE IF m = "flat" THEN FlatBlock(k)
    ELSE IF m = "normal" THEN NormalBlock(k)
    ELSE ""

KumiBlock(m, k) ==
    IF m = "nested" THEN NestedBlock(k)
    ELSE IF m = "flat" THEN FlatBlock(k)
    ELSE NormalBlock(k)

(***************************************************************************)
(* generate_cmake_script: one block of the body                            *)
(***************************************************************************)
CmakeBlock(k) ==
    "set(VAR_NAME_" \o Str(k) \o " \"Value_" \o Str(k) \o "\")\n"
    \o "if(\"Value_" \o Str(k) \o "\" STREQUAL VAR_NAME_" \o Str(k) \o ")\n"
    \o "  set(RESULT_" \o Str(k) \o " TRUE)\n"
    \o "endif()\n"
    \o "foreach(item RANGE 1 2)\n"
    \o "  list(APPEND LIST_" \o Str(k) \o " \"item_${item}\")\n"
    \o "endforeach()\n\n"

(***************************************************************************)
(* The locals of a call and the loop                                       *)
(***************************************************************************)
\* variant: the list outlives the call (a mutable default argument)
KeptOutput(old) == old

\* output = []
NewOutput(old) == <<>>

\* variant: the index outlives the call (a module-level counter)
KeptIndex(old) == old

\* i = 0
NewIndex(old) == 0

\* variant: the increment is missing
StuckIndex(k) == k

\* i += 1
NextIndex(k) == k + 1

\* variant: the loop goes on while current_bytes <= target_bytes
KumiLoopConditionInclusive(cur, tgt) == cur <= tgt

\* variant: the loop stops one byte early
CmakeLoopConditionShort(cur, tgt) == cur < tgt - 1

\* while current_bytes < target_bytes
KumiLoopCondition(cur, tgt) == cur < tgt

\* while current_bytes < target_bytes (generate_cmake_script)
CmakeLoopCondition(cur, tgt) == cur < tgt

\* variant: the header is not counted, current_bytes = 0
KumiInitialBytesZero(out) == 0

\* current_bytes = sum(len(s) for s in output)
KumiInitialBytes(out) == SumLen(out)

\* current_bytes = 0
CmakeInitialBytes == 0

NoCall == [fn |-> "none", mode |-> "none", target |-> 0, text |-> "", blocks |-> 0]

Init ==
    /\ pc = "idle"
    /\ fn = "none"
    /\ mode = "none"
    /\ target_bytes = 0
    /\ output = <<>>
    /\ current_bytes = 0
    /\ i = 0
    /\ result = ""
    /\ prev = NoCall

\* generate_kumi(m, size_mb) with size_mb * 1024 * 1024 = t, up to the loop
KumiCall(m, t) ==
    /\ pc \in {"idle", "done"}
    /\ fn' = "generate_kumi"
    /\ mode' = m
    /\ target_bytes' = t
    /\ output' = NewOutput(output) \o KumiHeader(m)
    /\ current_bytes' = KumiInitialBytes(output')
    /\ i' = NewIndex(i)
    /\ pc' = "kumi_loop"
    /\ result' = ""
    /\ UNCHANGED prev

\* one iteration of the body loop of generate_kumi
KumiIterate ==
    /\ pc = "kumi_loop"
    /\ KumiLoopCondition(current_bytes, target_bytes)
    /\ LET block == KumiBlock(mode, i)
       IN  /\ output' = Append(output, block)
           /\ current_bytes' = current_bytes + Len(block)
    /\ i' = NextIndex(i)
    /\ UNCHANGED <<pc, fn, mode, target_bytes, result, prev>>

\* the loop of generate_kumi is over: return "".join(output)
KumiReturn ==
    /\ pc = "kumi_loop"
    /\ ~KumiLoopCondition(current_bytes, target_bytes)
    /\ result' = Join(output)
    /\ pc' = "done"
    /\ UNCHANGED <<fn, mode, target_bytes, output, current_bytes, i, prev>>

\* generate_cmake_script(size_mb) with size_mb * 1024 * 1024 = t, up to the loop
CmakeCall(t) ==
    /\ pc \in {"idle", "done"}
    /\ fn' = "generate_cmake_script"
    /\ mode' = "pure_logic"
    /\ target_bytes' = t
    /\ output' = NewOutput(output)
    /\ current_bytes' = CmakeInitialBytes
    /\ i' = NewIndex(i)
    /\ pc' = "cmake_loop"
    /\ result' = ""
    /\ UNCHANGED prev

\* one iteration of the loop of generate_cmake_script
CmakeIterate ==
    /\ pc = "cmake_loop"
    /\ CmakeLoopCondition(current_bytes, target_bytes)
    /\ LET block == CmakeBlock(i)
       IN  /\ output' = Append(output, block)
           /\ current_bytes' = current_bytes + Len(block)
    /\ i' = NextIndex(i)
    /\ UNCHANGED <<pc, fn, mode, target_bytes, result, prev>>

\* the loop of generate_cmake_script is over: return "".join(output)
CmakeReturn ==
    /\ pc = "cmake_loop"
    /\ ~CmakeLoopCondition(current_bytes, target_bytes)
    /\ result' = Join(output)
    /\ pc' = "done"
    /\ UNCHANGED <<fn, mode, target_bytes, output, current_bytes, i, prev>>

\* a script run: one call of its generator (the __main__ blocks)
RunKumi == pc = "idle" /\ \E m \in KumiModes, t \in Targets : KumiCall(m, t)

RunCmake == pc = "idle" /\ \E t \in Targets : CmakeCall(t)

Next ==
    \/ RunKumi
    \/ KumiIterate
    \/ KumiReturn
    \/ RunCmake
    \/ CmakeIterate
    \/ CmakeReturn

Spec == Init /\ [][Next]_vars

\* a liveness specification: a call, once started, keeps running (sequential code)
FairSpec == Spec /\ WF_vars(Next)

(***************************************************************************)
(* Repeated calls in one process (run_generator called for several modes):  *)
(* a finished call may be followed by any other call, and the caller may    *)
(* keep the text a call returned.                                           *)
(***************************************************************************)
CallKumi == \E m \in KumiModes, t \in PairTargets : KumiCall(m, t)

CallCmake == \E t \in PairTargets : CmakeCall(t)

\* content = generate_kumi(mode, size_mb): the caller holds the returned text
Remember ==
    /\ pc = "done"
    /\ prev' = [fn |-> fn, mode |-> mode, target |-> target_bytes,
                text |-> result, blocks |-> i]
    /\ UNCHANGED <<pc, fn, mode, target_bytes, output, current_bytes, i, result>>

PairNext ==
    \/ CallKumi
    \/ KumiIterate
    \/ KumiReturn
    \/ CallCmake
    \/ CmakeIterate
    \/ CmakeReturn
    \/ Remember

PairSpec == Init /\ [][PairNext]_vars

(***************************************************************************)
(* Reading a text back: lines, indentation, the index a block embeds.      *)
(* None of these uses the operators that build the texts.                  *)
(***************************************************************************)
Char(s, p) == SubSeq(s, p, p)

IsDigit(c) == c \in {"0", "1", "2", "3", "4", "5", "6", "7", "8", "9"}

DigitValue(c) ==
    CASE c = "0" -> 0 [] c = "1" -> 1 [] c = "2" -> 2 [] c = "3" -> 3
      [] c = "4" -> 4 [] c = "5" -> 5 [] c = "6" -> 6 [] c = "7" -> 7
      [] c = "8" -> 8 [] c = "9" -> 9

IsPrefix(a, b) == Len(a) <= Len(b) /\ SubSeq(b, 1, Len(a)) = a

\* the position of the first digit that follows a "_", 0 when there is none
IndexStart(s) ==
    LET at == {p \in 2..Len(s) : Char(s, p - 1) = "_" /\ IsDigit(Char(s, p))}
    IN  IF at = {} THEN 0 ELSE CHOOSE p \in at : \A q \in at : p <= q

RECURSIVE ParseNat(_, _, _)
ParseNat(s, p, acc) ==
    IF p > Len(s) \/ ~IsDigit(Char(s, p)) THEN acc
    ELSE ParseNat(s, p + 1, acc * 10 + DigitValue(Char(s, p)))

\* the number a block carries in its first name (lib_7, leaf_7, VAR_NAME_7)
EmbeddedIndex(s) ==
    LET p == IndexStart(s) IN IF p = 0 THEN 0 - 1 ELSE ParseNat(s, p, 0)

NewlinePositions(s) == {p \in 1..Len(s) : Char(s, p) = "\n"}

RECURSIVE Sorted(_)
Sorted(S) ==
    IF S = {} THEN <<>>
    ELSE LET m == CHOOSE x \in S : \A y \in S : x <= y
         IN  <<m>> \o Sorted(S \ {m})

\* the lines of a text, each without the newline that ends it
LinesOf(s) ==
    LET nl == Sorted(NewlinePositions(s))
    IN  [k \in 1..Len(nl) |->
            SubSeq(s, IF k = 1 THEN 1 ELSE nl[k - 1] + 1, nl[k] - 1)]

\* the number of blanks a line starts with
RECURSIVE BlanksFrom(_, _)
BlanksFrom(l, p) ==
    IF p <= Len(l) /\ Char(l, p) = " " THEN 1 + BlanksFrom(l, p + 1) ELSE 0

LeadingSpaces(l) == BlanksFrom(l, 1)

Stripped(l) == SubSeq(l, LeadingSpaces(l) + 1, Len(l))

\* what a line of a nested block is
LineKind(l) ==
    LET t == Stripped(l)
    IN  IF t = "@if platform(linux) {" THEN "opener"
        ELSE IF t = "}" THEN "closer"
        ELSE IF IsPrefix("target leaf_", t) /\ Char(t, Len(t)) = "}" THEN "leaf"
        ELSE "other"

\* the pieces of output that make up the fixed header, and the blocks after them
HeaderPieces == IF fn = "generate_kumi" THEN Len(KumiHeader(mode)) ELSE 0

Blocks == SubSeq(output, HeaderPieces + 1, Len(output))

\* the length of the fixed header of each mode, as the source texts have it
HeaderLength ==
    CASE fn = "generate_cmake_script" -> 0
      [] fn = "generate_kumi" /\ mode = "flat" -> 42
      [] fn = "generate_kumi" /\ mode = "nested" -> 44
      [] OTHER -> 179

Max(a, b) == IF a >= b THEN a ELSE b

\* the longest block among those of index 0..n of the running call's mode
MaxBlockLength(n) ==
    LET len(k) == IF fn = "generate_kumi" THEN Len(KumiBlock(mode, k))
                  ELSE Len(CmakeBlock(k))
    IN  CHOOSE l \in {len(k) : k \in 0..n} : \A k \in 0..n : len(k) <= l

Returned == pc = "done"

(***************************************************************************)
(* C1: for every mode and every target > 0 the returned text is at least    *)
(* target bytes long.                                                       *)
(***************************************************************************)
C1_LengthReachesTarget ==
    (Returned /\ target_bytes > 0) => Len(result) >= target_bytes

C1_Witness ==
    /\ Returned
    /\ fn = "generate_cmake_script"
    /\ target_bytes > 0
    /\ i >= 11
    /\ Len(result) = target_bytes + 1

(***************************************************************************)
(* C2: for every mode and every target >= 0 the returned text is shorter    *)
(* than target + the longest block of the mode (the longest among the       *)
(* blocks the call appended, or block 0 when it appended none).             *)
(***************************************************************************)
C2_OvershootBound ==
    (Returned /\ target_bytes >= 0)
        => Len(result) < target_bytes + MaxBlockLength(Max(i - 1, 0))

C2_Witness ==
    /\ Returned
    /\ target_bytes >= 0
    /\ i = 0
    /\ mode = "normal"
    /\ Len(result) = target_bytes + 179

(***************************************************************************)
(* C3 as stated: generate("flat", 0) returns at least one block beyond the  *)
(* header.                                                                  *)
(***************************************************************************)
C3_Original ==
    (Returned /\ fn = "generate_kumi" /\ mode = "flat" /\ target_bytes = 0)
        => (i >= 1 /\ Len(Blocks) >= 1 /\ Len(result) > Len(FlatHeader))

(***************************************************************************)
(* C3 amended: generate("flat", 0) returns exactly the 42-byte flat header  *)
(* and no block: the loop runs zero times, the header already being longer  *)
(* than the target.                                                         *)
(***************************************************************************)
C3_FlatZeroIsHeaderOnly ==
    (Returned /\ fn = "generate_kumi" /\ mode = "flat" /\ target_bytes = 0)
        => /\ i = 0
           /\ Blocks = <<>>
           /\ Len(result) = 42
           /\ result = "project flat_stress { version: \"1.0.0\"; }\n"

C3_Witness ==
    Returned /\ fn = "generate_kumi" /\ mode = "flat" /\ target_bytes = 0

(***************************************************************************)
(* C4 as stated: for every mode and every target > 0 at least one block is  *)
(* appended after the header.                                               *)
(***************************************************************************)
C4_Original == (Returned /\ target_bytes > 0) => (i >= 1 /\ Len(Blocks) >= 1)

(***************************************************************************)
(* C4 amended: the returned text always starts with the fixed header, and   *)
(* at least one block follows it exactly when the target is greater than    *)
(* the header's length (42 flat, 44 nested, 179 normal, 0 pure_logic).      *)
(***************************************************************************)
C4_BlockIffTargetAboveHeader ==
    Returned =>
        /\ (Len(Blocks) >= 1) <=> (target_bytes > HeaderLength)
        /\ Len(Blocks) = i
        /\ Len(result) >= HeaderLength
        /\ fn = "generate_kumi" => IsPrefix(Join(KumiHeader(mode)), result)

C4_Witness ==
    /\ Returned
    /\ target_bytes > 0
    /\ target_bytes <= HeaderLength
    /\ Blocks = <<>>
    /\ Len(result) = HeaderLength

(***************************************************************************)
(* C5: generate_kumi with an unrecognized mode returns the text that        *)
(* generate_kumi("normal", ...) returns for the same target.                *)
(***************************************************************************)
Recognized(m) == m \in {"flat", "nested", "normal"}

C5_UnknownModeIsNormal ==
    (/\ Returned
     /\ fn = "generate_kumi"
     /\ prev.fn = "generate_kumi"
     /\ prev.target = target_bytes
     /\ \/ ~Recognized(mode) /\ prev.mode = "normal"
        \/ mode = "normal" /\ ~Recognized(prev.mode))
        => (result = prev.text /\ i = prev.blocks)

C5_Witness ==
    /\ Returned
    /\ fn = "generate_kumi"
    /\ prev.fn = "generate_kumi"
    /\ prev.target = target_bytes
    /\ ~Recognized(mode)
    /\ prev.mode = "normal"
    /\ i >= 11
    /\ result = prev.text

(***************************************************************************)
(* C6: two calls with the same arguments return the same text, whatever     *)
(* calls ran before or between them.                                        *)
(***************************************************************************)
C6_Determinism ==
    (/\ Returned
     /\ prev.fn = fn
     /\ prev.mode = mode
     /\ prev.target = target_bytes)
        => (result = prev.text /\ i = prev.blocks)

C6_Witness ==
    /\ Returned
    /\ prev.fn = fn
    /\ prev.mode = mode
    /\ prev.target = target_bytes
    /\ i >= 11
    /\ result = prev.text

(***************************************************************************)
(* C7: for a fixed mode and targets N1 <= N2 the text for N1 is a prefix of *)
(* the text for N2, no longer than it and of no more blocks.                *)
(***************************************************************************)
C7_Monotonicity ==
    (Returned /\ prev.fn = fn /\ prev.mode = mode)
        => /\ prev.target <= target_bytes
                => /\ Len(prev.text) <= Len(result)
                   /\ IsPrefix(prev.text, result)
                   /\ prev.blocks <= i
           /\ target_bytes <= prev.target
                => /\ Len(result) <= Len(prev.text)
                   /\ IsPrefix(result, prev.text)
                   /\ i <= prev.blocks

C7_Witness ==
    /\ Returned
    /\ prev.fn = fn
    /\ prev.mode = mode
    /\ prev.target < target_bytes
    /\ prev.blocks >= 1
    /\ prev.blocks < i
    /\ Len(prev.text) < Len(result)

(***************************************************************************)
(* C8: the k-th block of a call (from 0) embeds the index k, so the indices *)
(* read 0, 1, ..., n-1 in output order; in normal mode block k is a service *)
(* target, a profile or a mixin as k % 3 is 0, 1 or 2.                      *)
(***************************************************************************)
C8_IndexOrder ==
    \A k \in 1..Len(Blocks) :
        /\ EmbeddedIndex(Blocks[k]) = k - 1
        /\ (fn = "generate_kumi" /\ mode \notin {"flat", "nested"}) =>
              /\ (k - 1) % 3 = 0 => IsPrefix("target service_", Blocks[k])
              /\ (k - 1) % 3 = 1 => IsPrefix("profile release_", Blocks[k])
              /\ (k - 1) % 3 = 2 => IsPrefix("mixin plugin_", Blocks[k])

C8_Witness ==
    /\ Returned
    /\ mode = "normal"
    /\ Len(Blocks) >= 12
    /\ EmbeddedIndex(Blocks[12]) = 11
    /\ IsPrefix("mixin plugin_11 ", Blocks[12])

(***************************************************************************)
(* C9: in nested mode every block is 12 opener lines of strictly increasing *)
(* indentation, one leaf line, and 12 closer lines of strictly decreasing   *)
(* indentation that mirror the openers; the nesting depth is 0 again at the *)
(* end of every block.                                                      *)
(***************************************************************************)
\* ind[k], kind[k]: the indentation and the kind of line k of a block
LinesBalanced(ind, kind) ==
    LET \* the nesting depth after the first n lines
        open(n) == Cardinality({k \in 1..n : kind[k] = "opener"})
                     - Cardinality({k \in 1..n : kind[k] = "closer"})
    IN  /\ Len(kind) = 25
        /\ \A k \in 1..12 : kind[k] = "opener"
        /\ \A k \in 1..11 : ind[k] < ind[k + 1]
        /\ kind[13] = "leaf"
        /\ ind[12] < ind[13]
        /\ \A k \in 14..25 : kind[k] = "closer"
        /\ \A k \in 14..24 : ind[k] > ind[k + 1]
        /\ \A k \in 1..12 : ind[k] = ind[26 - k]
        /\ Cardinality({k \in 1..25 : kind[k] = "opener"}) = 12
        /\ Cardinality({k \in 1..25 : kind[k] = "closer"}) = 12
        /\ \A n \in 1..24 : open(n) >= 1
        /\ open(25) = 0

NestedBalanced(b) ==
    /\ Char(b, Len(b)) = "\n"
    /\ \A ls \in {LinesOf(b)} :
         \A ind \in {[k \in 1..Len(ls) |-> LeadingSpaces(ls[k])]} :
         \A kind \in {[k \in 1..Len(ls) |-> LineKind(ls[k])]} :
            LinesBalanced(ind, kind)

C9_NestedBalance ==
    (fn = "generate_kumi" /\ mode = "nested")
        => \A k \in 1..Len(Blocks) : NestedBalanced(Blocks[k])

C9_Witness ==
    /\ Returned
    /\ fn = "generate_kumi"
    /\ mode = "nested"
    /\ Len(Blocks) >= 3
    /\ NestedBalanced(Blocks[3])

(***************************************************************************)
(* C10: the loop of either generator terminates: every iteration appends a  *)
(* block of at least one byte, so current_bytes grows strictly; the call    *)
(* returns at the first loop test with current_bytes >= target, and it runs *)
(* no iteration exactly when the header's length is >= target.              *)
(***************************************************************************)
InLoop == pc \in {"kumi_loop", "cmake_loop"}

C10_Termination ==
    /\ (pc # "idle") ~> Returned
    /\ [][(InLoop /\ pc' = pc) => current_bytes' > current_bytes]_vars
    /\ [][(InLoop /\ pc' = "done") => current_bytes >= target_bytes]_vars
    /\ [](Returned =>
            /\ current_bytes >= target_bytes
            /\ i >= 1 => current_bytes - Len(output[Len(output)]) < target_bytes
            /\ (i = 0) <=> (HeaderLength >= target_bytes))

C10_Witness ==
    /\ Returned
    /\ i >= 12
    /\ current_bytes > target_bytes

====
